---- MODULE Spec2Model ----
(***************************************************************************)
(* DeviceVault backup orchestration pipeline.                              *)
(*                                                                         *)
(* The module holds four groups of state, each with its own specification: *)
(*   SpecIngest / SpecIngestSeq  dispatch -> collection worker -> stream   *)
(*                  device:results -> collection ingestor -> storage queue *)
(*                  -> storage worker -> stream storage:results -> storage *)
(*                  ingestor (consume_device_results.py,                   *)
(*                  consume_storage_results.py, storage/tasks.py)          *)
(*   SpecLeader     the scheduler's leadership lock (scheduler.py)         *)
(*   SpecWorker     device.collect with the per-device lock                *)
(*                  (devicevault_worker.py)                                *)
(*   SpecSched      start-up catch-up and dispatch ticks (scheduler.py)    *)
(***************************************************************************)
EXTENDS Integers, Sequences, FiniteSets, TLC

\* ------------------------------------------------------------------------
\* Bounds of the model
\* ------------------------------------------------------------------------
MaxDispatch == 2        \* job envelopes sent in one behaviour (one ingestor per group)
MaxRaceDispatch == 1    \* the same with several ingestor instances per group
MaxDeliveries == 2      \* deliveries of one queued job (acks_late redelivery)
MaxClock == 1           \* last reading of the wall clock in the ingestion pipeline
MaxStream == 2          \* entries appended to each result stream

Null == {}              \* Python None / SQL NULL: a nullable number is {} or {n}
Some(x) == {x}

VARIABLES
    \* --- ingestion pipeline ---
    clock,          \* wall clock (timezone.now / datetime.utcnow)
    devices,        \* primary keys of the rows of table Device
    location,       \* device id -> location_type of its backup_location ("" = none)
    budget,         \* envelopes the model may still dispatch
    collectors,     \* running instances of consume_device_results
    storers,        \* running instances of consume_storage_results
    collectQueue,   \* broker queue of device.collect jobs: seq of [cfg, deliveries]
    streamA,        \* Redis stream device:results (append-only)
    readA,          \* consumer group devicevault: entries delivered so far ('>')
    ackedA,         \* indices of streamA acknowledged with XACK
    ipc,            \* collection ingestor instance -> position in handle()
    ibatch,         \* collection ingestor instance -> indices read, not yet handled
    results,        \* table DeviceBackupResult: seq of rows
    storageQueue,   \* broker queues storage.<backend>: seq of [payload, deliveries]
    streamB,        \* Redis stream storage:results
    readB,          \* consumer group devicevault-storage: entries delivered so far
    ackedB,         \* indices of streamB acknowledged
    spc,            \* storage ingestor instance -> position in handle()
    sbatch,         \* storage ingestor instance -> indices read, not yet handled
    stored,         \* table StoredBackup: seq of rows
    \* --- scheduler leadership (devicevault:scheduler:lock) ---
    lockVal,        \* value of the lock key: Null (absent) or Some(pid)
    lockTtl,        \* tick intervals left before the key expires
    lpc,            \* scheduler process -> position in main() / run(); the outcome
                    \* of a GET is kept in the position that follows it
    shutdown,       \* scheduler process -> shutdown_requested
    refused,        \* scheduler process -> acquire_lock() returned False
    \* --- collection worker (device.collect, lock:device:<id>) ---
    devLock,        \* value of lock:device:1: Null or Some(token of the holder)
    devTtl,         \* time units left before the key expires
    wpc,            \* execution of device.collect -> position in the task
    age,            \* execution -> time units since the task started
    softFired,      \* execution -> SoftTimeLimitExceeded has been raised in it
    streamW,        \* records the executions appended to device:results
    \* --- scheduler: catch-up and dispatch ticks ---
    snow,           \* timezone.now(), seconds since 2025-01-01T00:00:00Z
    tzOffset,       \* UTC offset of the display time zone, seconds
    schedules,      \* rows of BackupSchedule in the order of the queryset
    last_run_at,    \* schedule -> BackupSchedule.last_run_at (Null or Some(t))
    last_tick,      \* SchedulerState.last_tick (Null or Some(t))
    sphase,         \* "down": no scheduler process; "up": one is in its main loop
    tickDone,       \* the running scheduler has ticked since the clock last moved
    sjobs,          \* calls of enqueue_device_backup, in order
    missed,         \* DeviceBackupResult rows written by create_missed_backup_result
    outages,        \* history: the (last_tick, now) pairs the catch-up passes saw
    advances,       \* clock steps taken
    starts          \* scheduler starts so far

ingestVars == <<clock, devices, location, budget, collectors, storers, collectQueue,
                streamA, readA, ackedA, ipc, ibatch, results, storageQueue, streamB,
                readB, ackedB, spc, sbatch, stored>>

leaderVars == <<lockVal, lockTtl, lpc, shutdown, refused>>

workerVars == <<devLock, devTtl, wpc, age, softFired, streamW>>

schedVars == <<snow, tzOffset, schedules, last_run_at, last_tick, sphase, tickDone,
               sjobs, missed, outages, advances, starts>>

vars == <<ingestVars, leaderVars, workerVars, schedVars>>

\* what the steps of one group leave alone
IngestFrame == UNCHANGED <<leaderVars, workerVars, schedVars>>
LeaderFrame == UNCHANGED <<ingestVars, workerVars, schedVars>>
WorkerFrame == UNCHANGED <<ingestVars, leaderVars, schedVars>>
SchedFrame == UNCHANGED <<ingestVars, leaderVars, workerVars>>

\* ------------------------------------------------------------------------
\* Helpers
\* ------------------------------------------------------------------------
Min(a, b) == IF a <= b THEN a ELSE b

Range(s) == {s[i] : i \in 1..Len(s)}

\* rows of a table (or entries of a stream) that carry task_identifier tid
WithTid(tbl, tid) == {i \in 1..Len(tbl) : tbl[i].task_identifier = tid}

RECURSIVE SelectIdx(_, _, _)
SelectIdx(s, keep, i) ==
    IF i > Len(s) THEN <<>>
    ELSE (IF i \in keep THEN <<s[i]>> ELSE <<>>) \o SelectIdx(s, keep, i + 1)

\* ------------------------------------------------------------------------
\* Devices and dispatch
\* ------------------------------------------------------------------------
DeviceIds == {1}
LocationTypes == {"", "git", "Filesystem", "s3"}
TriggerTypes == {"scheduled", "scheduled_catchup", "backup_now", "collect"}
IngestLocations == {"", "Filesystem", "s3"}      \* none, supported, unsupported
IngestTriggers == {"scheduled", "backup_now"}   \* triggers the pipeline model dispatches
CollectorInstances == {1, 2}
StorageInstances == {1, 2}

CollectTimeout == 240   \* 'timeout': 240 of every dispatched envelope

\* the envelope as it would be if the dispatcher stamped it with initiated_at
Envelope_Stamped(trigger, d, now) ==
    [ device_id       |-> d,
      task_identifier |-> <<trigger, d, now>>,
      timeout         |-> CollectTimeout,
      initiated_at    |-> now ]

\* The job envelope built by the scheduler and by the manual triggers:
\* task_identifier = '<trigger>:<device.id>:<now.isoformat()>'.  No dispatcher
\* puts an initiated_at key into the envelope.
Envelope(trigger, d, now) ==
    [ device_id       |-> d,
      task_identifier |-> <<trigger, d, now>>,
      timeout         |-> CollectTimeout ]

\* ------------------------------------------------------------------------
\* Collection worker: the record it appends to device:results
\* ------------------------------------------------------------------------
\* cfg.get('initiated_at', ''): the key is absent from every envelope, so the
\* record carries the empty string (Null here)
CollectPayload(cfg, status, duration) ==
    [ task_identifier        |-> cfg.task_identifier,
      device_id              |-> cfg.device_id,
      status                 |-> status,
      device_config          |-> IF status = "success" THEN "config" ELSE "",
      collection_duration_ms |-> Some(duration),
      initiated_at           |-> IF "initiated_at" \in DOMAIN cfg
                                 THEN Some(cfg.initiated_at) ELSE Null ]

\* ------------------------------------------------------------------------
\* Ingestion pipeline: initial state
\* ------------------------------------------------------------------------
IngestInit(n, cs, ss) ==
    /\ budget = n
    /\ collectors = cs
    /\ storers = ss
    /\ clock = 0
    /\ devices = DeviceIds
    /\ location \in [DeviceIds -> IngestLocations]
    /\ collectQueue = <<>>
    /\ streamA = <<>> /\ readA = 0 /\ ackedA = {}
    /\ ipc = [i \in CollectorInstances |-> "read"]
    /\ ibatch = [i \in CollectorInstances |-> <<>>]
    /\ results = <<>>
    /\ storageQueue = <<>>
    /\ streamB = <<>> /\ readB = 0 /\ ackedB = {}
    /\ spc = [i \in StorageInstances |-> "read"]
    /\ sbatch = [i \in StorageInstances |-> <<>>]
    /\ stored = <<>>

\* ------------------------------------------------------------------------
\* Environment of the pipeline: clock, dispatch, device removal
\* ------------------------------------------------------------------------
ClockTick ==
    /\ clock < MaxClock
    /\ clock' = clock + 1
    /\ UNCHANGED <<devices, location, budget, collectors, storers, collectQueue, streamA, readA, ackedA,
                   ipc, ibatch, results, storageQueue, streamB, readB, ackedB, spc,
                   sbatch, stored>>

\* celery_app.send_task('device.collect', args=[json.dumps(cfg)], queue=queue)
Dispatch(trigger, d) ==
    /\ budget > 0
    /\ d \in devices
    /\ budget' = budget - 1
    /\ collectQueue' = Append(collectQueue,
                              [cfg |-> Envelope(trigger, d, clock), deliveries |-> 0])
    /\ UNCHANGED <<clock, devices, location, collectors, storers, streamA, readA,
                   ackedA, ipc, ibatch, results, storageQueue, streamB, readB, ackedB,
                   spc, sbatch, stored>>

\* ------------------------------------------------------------------------
\* Routing of the three dispatchers (scheduler.py, api/views.py,
\* devicevault_worker.collection_queue_name_from_group)
\* ------------------------------------------------------------------------
\* Device.collection_group at the moment of the dispatch: Null (no group) or
\* a CollectionGroup row
EdgeGroup == [name |-> "edge", rabbitmq_queue_id |-> "q7"]
GroupChoices == {Null, Some(EdgeGroup)}

\* collection_queue_name_from_group: '' (Null here) without a group, else
\* 'collector.group.<qid>' with qid = rabbitmq_queue_id or str(group)
collection_queue_name_from_group(group) ==
    { <<"collector.group",
        IF g.rabbitmq_queue_id # "" THEN g.rabbitmq_queue_id ELSE g.name>> : g \in group }

\* enqueue_device_backup, lines 377-395: cfg and queue (Null is queue=None,
\* the default queue).  The device's columns are written <<column, id>>.
SchedulerEnvelope(is_catchup, d, now) ==
    [ device_id       |-> d,
      task_identifier |-> <<IF is_catchup THEN "scheduled_catchup" ELSE "scheduled", d, now>>,
      ip              |-> <<"ip_address", d>>,
      credentials     |-> <<"credential", d>>,
      backup_method   |-> <<"backup_method", d>>,
      plugin_params   |-> <<>>,
      timeout         |-> CollectTimeout ]

SchedulerQueue(group) ==
    IF group # Null /\ collection_queue_name_from_group(group) # Null
    THEN collection_queue_name_from_group(group) ELSE Null

\* DeviceViewSet.backup_now, api/views.py lines 184-198
BackupNowEnvelope(d, now) ==
    [ device_id       |-> d,
      task_identifier |-> <<"backup_now", d, now>>,
      ip              |-> <<"ip_address", d>>,
      credentials     |-> <<"credential", d>>,
      backup_method   |-> <<"backup_method", d>>,
      plugin_params   |-> <<>>,
      timeout         |-> CollectTimeout ]

\* the routing of backup_now as it would be if it ignored the group
BackupNowQueue_Default(group) == Null

BackupNowQueue(group) ==
    IF group # Null /\ collection_queue_name_from_group(group) # Null
    THEN collection_queue_name_from_group(group) ELSE Null

\* DeviceViewSet.collect, api/views.py lines 220-234
CollectEnvelope(d, now) ==
    [ device_id       |-> d,
      task_identifier |-> <<"collect", d, now>>,
      ip              |-> <<"ip_address", d>>,
      credentials     |-> <<"credential", d>>,
      backup_method   |-> <<"backup_method", d>>,
      plugin_params   |-> <<>>,
      timeout         |-> CollectTimeout ]

CollectQueue(group) ==
    IF group # Null /\ collection_queue_name_from_group(group) # Null
    THEN collection_queue_name_from_group(group) ELSE Null

\* celery_app.send_task('device.collect', args=[json.dumps(cfg)], queue=queue)
\* as the dispatchers call it; sent = FALSE is a send_task that raised.  The
\* job remembers the trigger and the group the device had.
SendCollect(trigger, cfg, queue, group, sent) ==
    /\ budget > 0
    /\ budget' = budget - 1
    /\ collectQueue' = IF sent
                       THEN Append(collectQueue,
                                   [ cfg |-> cfg, queue |-> queue, trigger |-> trigger,
                                     group |-> group, deliveries |-> 0 ])
                       ELSE collectQueue
    /\ UNCHANGED <<clock, devices, location, collectors, storers, streamA, readA,
                   ackedA, ipc, ibatch, results, storageQueue, streamB, readB, ackedB,
                   spc, sbatch, stored>>

\* enqueue_device_backup(device, schedule, is_catchup), lines 367-400
DispatchScheduled(is_catchup, d, group, sent) ==
    /\ d \in devices
    /\ SendCollect(IF is_catchup THEN "scheduled_catchup" ELSE "scheduled",
                   SchedulerEnvelope(is_catchup, d, clock), SchedulerQueue(group), group, sent)

\* POST /devices/<id>/backup_now/, api/views.py lines 173-204
DispatchBackupNow(d, group, sent) ==
    /\ d \in devices
    /\ SendCollect("backup_now", BackupNowEnvelope(d, clock), BackupNowQueue(group), group, sent)

\* POST /devices/<id>/collect/, api/views.py lines 206-241
DispatchCollect(d, group, sent) ==
    /\ d \in devices
    /\ SendCollect("collect", CollectEnvelope(d, clock), CollectQueue(group), group, sent)

DispatchNext ==
    \/ ClockTick /\ IngestFrame
    \/ \E c, s \in BOOLEAN, d \in DeviceIds, g \in GroupChoices :
           DispatchScheduled(c, d, g, s) /\ IngestFrame
    \/ \E s \in BOOLEAN, d \in DeviceIds, g \in GroupChoices :
           DispatchBackupNow(d, g, s) /\ IngestFrame
    \/ \E s \in BOOLEAN, d \in DeviceIds, g \in GroupChoices :
           DispatchCollect(d, g, s) /\ IngestFrame

\* A Device row is deleted; DeviceBackupResult.device and StoredBackup.device are
\* ForeignKey(on_delete=CASCADE), so the device's rows go with it.
RemoveDevice(d) ==
    /\ devices = DeviceIds
    /\ d \in devices
    /\ devices' = devices \ {d}
    /\ results' = SelectIdx(results, {i \in 1..Len(results) : results[i].device # d}, 1)
    /\ stored' = SelectIdx(stored, {i \in 1..Len(stored) : stored[i].device # d}, 1)
    /\ UNCHANGED <<clock, location, budget, collectors, storers, collectQueue, streamA, readA, ackedA,
                   ipc, ibatch, storageQueue, streamB, readB, ackedB, spc, sbatch>>

\* ------------------------------------------------------------------------
\* Collection worker, seen from the pipeline: one execution of device.collect
\* for the k-th queued job.  published = FALSE is an execution that returns
\* without XADD (see device_collect_task below); acked = FALSE is a worker lost
\* after the task body and before the late acknowledgement, which makes the
\* broker deliver the job again.
\* ------------------------------------------------------------------------
CollectExecution(k, status, published, acked) ==
    /\ k \in 1..Len(collectQueue)
    /\ published => Len(streamA) < MaxStream
    /\ LET job == collectQueue[k] IN
       /\ streamA' = IF published
                     THEN Append(streamA, CollectPayload(job.cfg, status, 0))
                     ELSE streamA
       /\ IF acked
          THEN collectQueue' = SelectIdx(collectQueue, (1..Len(collectQueue)) \ {k}, 1)
          ELSE /\ job.deliveries + 1 < MaxDeliveries
               /\ collectQueue' = [collectQueue EXCEPT ![k].deliveries = @ + 1]
    /\ UNCHANGED <<clock, devices, location, budget, collectors, storers, readA, ackedA, ipc, ibatch,
                   results, storageQueue, streamB, readB, ackedB, spc, sbatch, stored>>

\* ------------------------------------------------------------------------
\* Collection ingestor: consume_device_results.Command.handle
\* ------------------------------------------------------------------------
XReadCount == 10        \* xreadgroup(..., count=10, ...)

\* position after the message at the head of the batch has been dealt with
NextPc(batch) == IF Len(batch) > 1 THEN "check" ELSE "read"

\* r.xreadgroup(group, consumer, {stream: '>'}, count=10): the entries never
\* delivered to any consumer of the group, oldest first
IngestRead(i) ==
    /\ ipc[i] = "read"
    /\ readA < Len(streamA)
    /\ LET last == Min(readA + XReadCount, Len(streamA)) IN
       /\ ibatch' = [ibatch EXCEPT ![i] = [n \in 1..(last - readA) |-> readA + n]]
       /\ readA' = last
    /\ ipc' = [ipc EXCEPT ![i] = "check"]
    /\ UNCHANGED <<clock, devices, location, budget, collectors, storers, collectQueue, streamA, ackedA,
                   results, storageQueue, streamB, readB, ackedB, spc, sbatch, stored>>

\* mutant: the idempotency test never finds the task_identifier
AlreadyPersisted_Never(tbl, tid) == FALSE

\* the idempotency test of line 76
AlreadyPersisted(tbl, tid) == tid # "" /\ WithTid(tbl, tid) # {}

\* r.xack(stream, group, msg_id) and on to the next message of the batch
IngestAck(i, idx) ==
    /\ ackedA' = ackedA \cup {idx}
    /\ ibatch' = [ibatch EXCEPT ![i] = Tail(@)]
    /\ ipc' = [ipc EXCEPT ![i] = NextPc(ibatch[i])]

\* the lookup as it would be if only the idempotency test could skip a message
IngestCheck_NoLookup(i) ==
    /\ ipc[i] = "check"
    /\ LET idx == Head(ibatch[i])
           m   == streamA[idx]
       IN IF AlreadyPersisted(results, m.task_identifier)
          THEN IngestAck(i, idx)
          ELSE /\ ipc' = [ipc EXCEPT ![i] = "create"]
               /\ UNCHANGED <<ackedA, ibatch>>
    /\ UNCHANGED <<clock, devices, location, budget, collectors, storers, collectQueue, streamA, readA,
                   results, storageQueue, streamB, readB, ackedB, spc, sbatch, stored>>

\* lines 75-101: skip (and acknowledge) a message whose task_identifier is
\* already persisted, whose device_id is empty or whose device does not exist
IngestCheck(i) ==
    /\ ipc[i] = "check"
    /\ LET idx == Head(ibatch[i])
           m   == streamA[idx]
       IN IF \/ AlreadyPersisted(results, m.task_identifier)
             \/ m.device_id \notin devices
          THEN IngestAck(i, idx)
          ELSE /\ ipc' = [ipc EXCEPT ![i] = "create"]
               /\ UNCHANGED <<ackedA, ibatch>>
    /\ UNCHANGED <<clock, devices, location, budget, collectors, storers, collectQueue, streamA, readA,
                   results, storageQueue, streamB, readB, ackedB, spc, sbatch, stored>>

\* lines 120-128: "overall duration (step 1 to step 5)"
CollectionOverall(initiated_at, duration, now) ==
    IF initiated_at # Null /\ duration # Null
    THEN {now - t : t \in initiated_at}
    ELSE Null

\* the row as it would be if the ingestor stored a failure as "failed"
ResultRow_Renamed(m, now) ==
    [ task_identifier        |-> m.task_identifier,
      device                 |-> m.device_id,
      status                 |-> IF m.status = "failure" THEN "failed" ELSE m.status,
      timestamp              |-> now,
      initiated_at           |-> m.initiated_at,
      collection_duration_ms |-> m.collection_duration_ms,
      overall_duration_ms    |-> CollectionOverall(m.initiated_at,
                                                   m.collection_duration_ms, now) ]

\* the row of DeviceBackupResult.objects.create, lines 130-140
ResultRow(m, now) ==
    [ task_identifier        |-> m.task_identifier,
      device                 |-> m.device_id,
      status                 |-> m.status,
      timestamp              |-> now,
      initiated_at           |-> m.initiated_at,
      collection_duration_ms |-> m.collection_duration_ms,
      overall_duration_ms    |-> CollectionOverall(m.initiated_at,
                                                   m.collection_duration_ms, now) ]

\* lines 130-140 and 152-155: the INSERT; a device deleted since the lookup makes
\* it raise (foreign key), which the handler answers with an acknowledgement
IngestCreate(i) ==
    /\ ipc[i] = "create"
    /\ LET idx == Head(ibatch[i])
           m   == streamA[idx]
       IN IF m.device_id \in devices
          THEN /\ results' = Append(results, ResultRow(m, clock))
               /\ IF m.status = "success"
                  THEN /\ ipc' = [ipc EXCEPT ![i] = "enqueue"]
                       /\ UNCHANGED <<ackedA, ibatch>>
                  ELSE IngestAck(i, idx)
          ELSE /\ UNCHANGED results
               /\ IngestAck(i, idx)
    /\ UNCHANGED <<clock, devices, location, budget, collectors, storers, collectQueue, streamA, readA,
                   storageQueue, streamB, readB, ackedB, spc, sbatch, stored>>

\* storage_backend_map.get((location.location_type or '').lower())
LowerCase(s) == IF s = "Filesystem" THEN "filesystem" ELSE s

storage_backend_map(t) ==
    CASE t = "git" -> "git"
      [] t = "fs" -> "fs"
      [] t = "filesystem" -> "fs"
      [] OTHER -> ""

\* mutant: the storage job is built whatever the device's location is
StorageJobsFor_Always(d, tid, device_config, sent) ==
    << [ payload |-> [ task_identifier |-> tid,
                       device_id       |-> d,
                       storage_backend |-> storage_backend_map(LowerCase(location[d])),
                       device_config   |-> device_config ],
         deliveries |-> 0 ] >>

\* _enqueue_storage_task, lines 160-192: the storage jobs it adds to the broker
\* for device d ("" location: none configured); sent = FALSE is a send_task
\* that raised
StorageJobsFor(d, tid, device_config, sent) ==
    LET backend_key == storage_backend_map(LowerCase(location[d])) IN
    IF location[d] = "" \/ backend_key = "" \/ ~sent
    THEN <<>>
    ELSE << [ payload |-> [ task_identifier |-> tid,
                            device_id       |-> d,
                            storage_backend |-> backend_key,
                            device_config   |-> device_config ],
              deliveries |-> 0 ] >>

IngestEnqueue(i, sent) ==
    /\ ipc[i] = "enqueue"
    /\ LET m == streamA[Head(ibatch[i])] IN
       storageQueue' = storageQueue \o
           StorageJobsFor(m.device_id, m.task_identifier, m.device_config, sent)
    /\ IngestAck(i, Head(ibatch[i]))
    /\ UNCHANGED <<clock, devices, location, budget, collectors, storers, collectQueue, streamA, readA,
                   results, streamB, readB, ackedB, spc, sbatch, stored>>

\* ------------------------------------------------------------------------
\* Storage worker: storage.tasks.storage_store_task and _publish_result
\* ------------------------------------------------------------------------
STORAGE_BACKENDS == {"git", "fs", "filesystem"}

\* the result dict of storage_store_task; backend_ok = FALSE is a backend that
\* raised (or the soft time limit)
StoreResult(payload, backend_ok) ==
    LET succeeded == /\ payload.storage_backend \in STORAGE_BACKENDS
                     /\ payload.device_config # ""
                     /\ backend_ok
    IN [ task_identifier |-> payload.task_identifier,
         device_id       |-> payload.device_id,
         storage_backend |-> payload.storage_backend,
         storage_ref     |-> IF succeeded THEN "ref" ELSE "",
         status          |-> IF succeeded THEN "success" ELSE "failure",
         operation       |-> "store" ]

\* one execution of storage.store for the k-th queued job; published = FALSE is
\* an XADD that raised inside _publish_result, acked = FALSE a worker lost
\* before the late acknowledgement
StorageExecution(k, backend_ok, published, acked) ==
    /\ k \in 1..Len(storageQueue)
    /\ published => Len(streamB) < MaxStream
    /\ LET job == storageQueue[k] IN
       /\ streamB' = IF published
                     THEN Append(streamB, StoreResult(job.payload, backend_ok))
                     ELSE streamB
       /\ IF acked
          THEN storageQueue' = SelectIdx(storageQueue, (1..Len(storageQueue)) \ {k}, 1)
          ELSE /\ job.deliveries + 1 < MaxDeliveries
               /\ storageQueue' = [storageQueue EXCEPT ![k].deliveries = @ + 1]
    /\ UNCHANGED <<clock, devices, location, budget, collectors, storers, collectQueue, streamA, readA,
                   ackedA, ipc, ibatch, results, readB, ackedB, spc, sbatch, stored>>

\* ------------------------------------------------------------------------
\* Storage ingestor: consume_storage_results.Command.handle
\* ------------------------------------------------------------------------
StoreRead(i) ==
    /\ spc[i] = "read"
    /\ readB < Len(streamB)
    /\ LET last == Min(readB + XReadCount, Len(streamB)) IN
       /\ sbatch' = [sbatch EXCEPT ![i] = [n \in 1..(last - readB) |-> readB + n]]
       /\ readB' = last
    /\ spc' = [spc EXCEPT ![i] = "check"]
    /\ UNCHANGED <<clock, devices, location, budget, collectors, storers, collectQueue, streamA, readA,
                   ackedA, ipc, ibatch, results, storageQueue, streamB, ackedB, stored>>

StoreAck(i, idx) ==
    /\ ackedB' = ackedB \cup {idx}
    /\ sbatch' = [sbatch EXCEPT ![i] = Tail(@)]
    /\ spc' = [spc EXCEPT ![i] = NextPc(sbatch[i])]

\* lines 67-94: non-store operation, missing device_id, task_identifier already
\* persisted, unknown device: acknowledge and go on
StoreCheck(i) ==
    /\ spc[i] = "check"
    /\ LET idx == Head(sbatch[i])
           m   == streamB[idx]
       IN IF \/ m.operation # "store"
             \/ AlreadyPersisted(stored, m.task_identifier)
             \/ m.device_id \notin devices
          THEN StoreAck(i, idx)
          ELSE /\ spc' = [spc EXCEPT ![i] = "create"]
               /\ UNCHANGED <<ackedB, sbatch>>
    /\ UNCHANGED <<clock, devices, location, budget, collectors, storers, collectQueue, streamA, readA,
                   ackedA, ipc, ibatch, results, storageQueue, streamB, readB, stored>>

\* the row of StoredBackup.objects.create, lines 96-106
StoredRow(m, now) ==
    [ task_identifier |-> m.task_identifier,
      device          |-> m.device_id,
      storage_backend |-> m.storage_backend,
      storage_ref     |-> m.storage_ref,
      status          |-> m.status,
      timestamp       |-> now ]

\* Meta.ordering = ['-timestamp']: .first() is a row with the latest timestamp
FirstResult(tid) ==
    LET rows == WithTid(results, tid) IN
    {i \in rows : \A j \in rows : results[j].timestamp <= results[i].timestamp}

\* the update as it would be if it refreshed the row's timestamp as well
WithOverall_Touch(tbl, i, now) ==
    [tbl EXCEPT ![i].timestamp = now,
                ![i].overall_duration_ms = {now - t : t \in tbl[i].initiated_at}]

\* lines 113-119: backup_result.overall_duration_ms = now - initiated_at, only
\* when the row's initiated_at is set
WithOverall(tbl, i, now) ==
    IF tbl[i].initiated_at # Null
    THEN [tbl EXCEPT ![i].overall_duration_ms = {now - t : t \in tbl[i].initiated_at}]
    ELSE tbl

\* lines 96-123: the INSERT, then for a successful outcome the update of the
\* originating DeviceBackupResult, then the acknowledgement
StoreCreate(i) ==
    /\ spc[i] = "create"
    /\ LET idx == Head(sbatch[i])
           m   == streamB[idx]
       IN IF m.device_id \in devices
          THEN /\ stored' = Append(stored, StoredRow(m, clock))
               /\ IF /\ m.task_identifier # ""
                     /\ m.status = "success"
                     /\ FirstResult(m.task_identifier) # {}
                  THEN \E r \in FirstResult(m.task_identifier) :
                           results' = WithOverall(results, r, clock)
                  ELSE UNCHANGED results
          ELSE UNCHANGED <<stored, results>>
    /\ StoreAck(i, Head(sbatch[i]))
    /\ UNCHANGED <<clock, devices, location, budget, collectors, storers, collectQueue, streamA, readA,
                   ackedA, ipc, ibatch, storageQueue, streamB, readB>>

\* ------------------------------------------------------------------------
\* Next-state relation of the ingestion pipeline
\* ------------------------------------------------------------------------
IngestNext ==
    \/ ClockTick /\ IngestFrame
    \/ \E t \in IngestTriggers, d \in DeviceIds : Dispatch(t, d) /\ IngestFrame
    \/ \E d \in DeviceIds : RemoveDevice(d) /\ IngestFrame
    \/ \E k \in 1..MaxDispatch, s \in {"success", "failure"}, p, a \in BOOLEAN :
           CollectExecution(k, s, p, a) /\ IngestFrame
    \/ \E i \in collectors : IngestRead(i) /\ IngestFrame
    \/ \E i \in collectors : IngestCheck(i) /\ IngestFrame
    \/ \E i \in collectors : IngestCreate(i) /\ IngestFrame
    \/ \E i \in collectors, sent \in BOOLEAN : IngestEnqueue(i, sent) /\ IngestFrame
    \/ \E k \in 1..(MaxDispatch * MaxDeliveries), ok, p, a \in BOOLEAN :
           StorageExecution(k, ok, p, a) /\ IngestFrame
    \/ \E i \in storers : StoreRead(i) /\ IngestFrame
    \/ \E i \in storers : StoreCheck(i) /\ IngestFrame
    \/ \E i \in storers : StoreCreate(i) /\ IngestFrame

\* ------------------------------------------------------------------------
\* Ingestor processes that end and start again
\* ------------------------------------------------------------------------
\* A collection ingestor process is killed wherever it is.  What it held in
\* memory is gone; the entries it has read and not acknowledged stay in the
\* pending list of its consumer.
CollectorCrash(i) ==
    /\ i \in collectors
    /\ collectors' = collectors \ {i}
    /\ ipc' = [ipc EXCEPT ![i] = "read"]
    /\ ibatch' = [ibatch EXCEPT ![i] = <<>>]
    /\ UNCHANGED <<clock, devices, location, budget, storers, collectQueue, streamA, readA,
                   ackedA, results, storageQueue, streamB, readB, ackedB, spc, sbatch,
                   stored>>

\* handle(), lines 25-52: when the stage has no process left, a new one is
\* started; it joins the group as 'consumer-<pid>' and reads with id '>',
\* which delivers only entries never delivered to any consumer of the group
CollectorStart(i) ==
    /\ collectors = {}
    /\ collectors' = collectors \cup {i}
    /\ UNCHANGED <<clock, devices, location, budget, storers, collectQueue, streamA, readA,
                   ackedA, ipc, ibatch, results, storageQueue, streamB, readB, ackedB,
                   spc, sbatch, stored>>

\* the same for a storage ingestor (consume_storage_results, lines 18-46)
StorerCrash(i) ==
    /\ i \in storers
    /\ storers' = storers \ {i}
    /\ spc' = [spc EXCEPT ![i] = "read"]
    /\ sbatch' = [sbatch EXCEPT ![i] = <<>>]
    /\ UNCHANGED <<clock, devices, location, budget, collectors, collectQueue, streamA,
                   readA, ackedA, ipc, ibatch, results, storageQueue, streamB, readB,
                   ackedB, stored>>

StorerStart(i) ==
    /\ storers = {}
    /\ storers' = storers \cup {i}
    /\ UNCHANGED <<clock, devices, location, budget, collectors, collectQueue, streamA,
                   readA, ackedA, ipc, ibatch, results, storageQueue, streamB, readB,
                   ackedB, spc, sbatch, stored>>

IngestCrashNext ==
    \/ IngestNext
    \/ \E i \in CollectorInstances : CollectorCrash(i) /\ IngestFrame
    \/ \E i \in CollectorInstances : CollectorStart(i) /\ IngestFrame
    \/ \E i \in StorageInstances : StorerCrash(i) /\ IngestFrame
    \/ \E i \in StorageInstances : StorerStart(i) /\ IngestFrame

\* ------------------------------------------------------------------------
\* Properties of the ingestion pipeline
\* ------------------------------------------------------------------------
Count(tbl, tid) == Cardinality(WithTid(tbl, tid))

RedeliveryA == \E i \in CollectorInstances :
                   /\ ipc[i] = "check" /\ ipc'[i] # "check"
                   /\ AlreadyPersisted(results, streamA[Head(ibatch[i])].task_identifier)
RedeliveryB == \E i \in StorageInstances :
                   /\ spc[i] = "check" /\ spc'[i] # "check"
                   /\ AlreadyPersisted(stored, streamB[Head(sbatch[i])].task_identifier)

C2_AtMostOneRowPerTask ==
    /\ \A i, j \in 1..Len(results) :
           results[i].task_identifier = results[j].task_identifier => i = j
    /\ \A i, j \in 1..Len(stored) :
           stored[i].task_identifier = stored[j].task_identifier => i = j

\* C8: once a successful collection outcome and a successful storage outcome of
\* one task_identifier are both persisted, the DeviceBackupResult row has
\* overall_duration_ms = (time of the storage ingestion) - initiated_at, not null.
C8_OverallDurationSet ==
    \A r \in 1..Len(results), s \in 1..Len(stored) :
        ( /\ results[r].task_identifier = stored[s].task_identifier
          /\ results[r].status = "success"
          /\ stored[s].status = "success" )
        => /\ results[r].overall_duration_ms # Null
           /\ results[r].overall_duration_ms =
                  {stored[s].timestamp - t : t \in results[r].initiated_at}

\* a device without a backup location or with one no backend is mapped to
NoBackend(d) == location[d] = "" \/ storage_backend_map(LowerCase(location[d])) = ""

\* C10: a successful collection outcome of a device with no (supported) backup
\* location is persisted as a DeviceBackupResult with status success, no storage
\* job is enqueued for it, and no StoredBackup row with its task_identifier
\* exists in any later state.
C10_NoStorageWithoutLocation ==
    /\ [](\A idx \in 1..Len(streamA) :
            LET m == streamA[idx] IN
            (m.status = "success" /\ NoBackend(m.device_id))
            => /\ \A k \in 1..Len(storageQueue) :
                      storageQueue[k].payload.task_identifier # m.task_identifier
               /\ \A k \in 1..Len(streamB) :
                      streamB[k].task_identifier # m.task_identifier
               /\ Count(stored, m.task_identifier) = 0
               /\ (idx \in ackedA /\ m.device_id \in devices)
                      => Count(results, m.task_identifier) >= 1)
    /\ [][\A i \in CollectorInstances :
            ( /\ ipc[i] = "create" /\ ipc'[i] # "create"
              /\ Len(results') = Len(results) + 1
              /\ streamA[Head(ibatch[i])].status = "success"
              /\ NoBackend(streamA[Head(ibatch[i])].device_id) )
            => /\ results'[Len(results')].status = "success"
               /\ results'[Len(results')].task_identifier =
                      streamA[Head(ibatch[i])].task_identifier
               /\ ipc'[i] = "enqueue"]_vars

\* C10, witness: the success outcome of a device without backend has been
\* acknowledged, its success row exists, and the storage side is empty.
C10_SuccessWithoutLocation ==
    \E idx \in ackedA :
        /\ streamA[idx].status = "success"
        /\ NoBackend(streamA[idx].device_id)
        /\ \E r \in WithTid(results, streamA[idx].task_identifier) :
               results[r].status = "success"
        /\ \A i \in CollectorInstances : ipc[i] = "read"

\* ingestor i of the collection stage (of the storage stage) takes a step
\* with the message at the head of its batch
CollectorStep(i) == <<ipc[i], ibatch[i]>>' # <<ipc[i], ibatch[i]>>
StorerStep(i) == <<spc[i], sbatch[i]>>' # <<spc[i], sbatch[i]>>

\* C16: when an ingestor looks up the device of the message it has read and
\* no such Device exists, the step acknowledges the message, adds no
\* DeviceBackupResult row, no StoredBackup row and no storage job, and the
\* ingestor goes on with the next message of its batch (or its next read).
C16_PoisonAcknowledged ==
    [][/\ \A i \in collectors :
            ( /\ ipc[i] = "check"
              /\ CollectorStep(i)
              /\ streamA[Head(ibatch[i])].device_id \notin devices )
            => /\ Head(ibatch[i]) \in ackedA'
               /\ results' = results
               /\ storageQueue' = storageQueue
               /\ ibatch'[i] = Tail(ibatch[i])
               /\ ipc'[i] = IF ibatch'[i] # <<>> THEN "check" ELSE "read"
       /\ \A i \in storers :
            ( /\ spc[i] = "check"
              /\ StorerStep(i)
              /\ streamB[Head(sbatch[i])].device_id \notin devices )
            => /\ Head(sbatch[i]) \in ackedB'
               /\ stored' = stored
               /\ results' = results
               /\ sbatch'[i] = Tail(sbatch[i])
               /\ spc'[i] = IF sbatch'[i] # <<>> THEN "check" ELSE "read"]_vars

\* C16 witness: an ingestor read two collection outcomes of a device that no
\* longer exists in one batch; the first, a success of a device with a
\* supported backup location, is acknowledged with no row and no storage job,
\* and the ingestor is at the second
C16_PoisonSkipped ==
    \E i \in collectors :
        /\ devices = {}
        /\ ibatch[i] = <<2>> /\ ipc[i] = "check"
        /\ 1 \in ackedA
        /\ streamA[1].status = "success"
        /\ location[streamA[1].device_id] = "Filesystem"
        /\ results = <<>> /\ storageQueue = <<>> /\ streamB = <<>>

\* a successful storage outcome with this task_identifier has been ingested
StoredSuccess(tbl, tid) ==
    \E s \in 1..Len(tbl) : tbl[s].task_identifier = tid /\ tbl[s].status = "success"

StatusValues(tbl) == {tbl[k].status : k \in 1..Len(tbl)}

SchedulerProcs == {1, 2, 3}     \* process ids of the scheduler daemons

tick_interval == 60             \* self.tick_interval
lock_timeout == 180             \* self.lock_timeout

\* the TTL of the key, counted in tick intervals
LockTtlTicks == lock_timeout \div tick_interval

\* os.kill(pid, 0) succeeds: the process has started and has not ended
Alive(p) == lpc[p] \notin {"idle", "exited", "dead"}

LeaderInit ==
    /\ lockVal = Null
    /\ lockTtl = 0
    /\ lpc = [p \in SchedulerProcs |-> "idle"]
    /\ shutdown = [p \in SchedulerProcs |-> FALSE]
    /\ refused = [p \in SchedulerProcs |-> FALSE]

\* main(): the daemon starts and run() calls acquire_lock()
StartScheduler(p) ==
    /\ lpc[p] = "idle"
    /\ lpc' = [lpc EXCEPT ![p] = "stale_get"]
    /\ UNCHANGED <<lockVal, lockTtl, shutdown, refused>>

\* check_stale_lock, lines 160-169: GET the key and probe its holder
StaleGet(p) ==
    /\ lpc[p] = "stale_get"
    /\ lpc' = [lpc EXCEPT ![p] =
                  IF lockVal # Null /\ \A h \in lockVal : ~Alive(h)
                  THEN "stale_del" ELSE "setnx"]
    /\ UNCHANGED <<lockVal, lockTtl, shutdown, refused>>

\* check_stale_lock, line 173: DELETE the key, whatever it holds by now
StaleDelete(p) ==
    /\ lpc[p] = "stale_del"
    /\ lockVal' = Null
    /\ lockTtl' = 0
    /\ lpc' = [lpc EXCEPT ![p] = "setnx"]
    /\ UNCHANGED <<shutdown, refused>>

\* acquire_lock, lines 105-118: SET key pid NX EX 180; run() returns when the
\* key exists (lines 461-463) and main() goes on to its finally clause
SetNx(p) ==
    /\ lpc[p] = "setnx"
    /\ IF lockVal = Null
       THEN /\ lockVal' = Some(p)
            /\ lockTtl' = LockTtlTicks
            /\ lpc' = [lpc EXCEPT ![p] = "catchup"]
            /\ UNCHANGED refused
       ELSE /\ refused' = [refused EXCEPT ![p] = TRUE]
            /\ lpc' = [lpc EXCEPT ![p] = "final_get"]
            /\ UNCHANGED <<lockVal, lockTtl>>
    /\ UNCHANGED shutdown

\* run, lines 466-472: SchedulerState.load() and process_missed_backups;
\* an exception leaves run() through its finally clause
StartUpPass(p, raised) ==
    /\ lpc[p] = "catchup"
    /\ lpc' = [lpc EXCEPT ![p] = IF raised THEN "release_get" ELSE "loop"]
    /\ UNCHANGED <<lockVal, lockTtl, shutdown, refused>>

\* run, line 478: while not shutdown_requested
LoopTest(p) ==
    /\ lpc[p] = "loop"
    /\ lpc' = [lpc EXCEPT ![p] = IF shutdown[p] THEN "release_get" ELSE "renew_get"]
    /\ UNCHANGED <<lockVal, lockTtl, shutdown, refused>>

\* renew_lock as it would be if the loop went on to process_schedules
\* whatever the GET returned
RenewGet_Continues(p, unreachable) ==
    /\ lpc[p] = "renew_get"
    /\ lpc' = [lpc EXCEPT ![p] =
                  IF ~unreachable /\ lockVal = Some(p)
                  THEN "renew_expire" ELSE "tick"]
    /\ UNCHANGED <<lockVal, lockTtl, shutdown, refused>>

\* renew_lock, lines 125-136: GET; a different value, no value or an error
\* of the lock store makes renew_lock return False (position "lost")
RenewGet(p, unreachable) ==
    /\ lpc[p] = "renew_get"
    /\ lpc' = [lpc EXCEPT ![p] =
                  IF ~unreachable /\ lockVal = Some(p)
                  THEN "renew_expire" ELSE "lost"]
    /\ UNCHANGED <<lockVal, lockTtl, shutdown, refused>>

\* run, lines 481-483: "Lost scheduler lock, exiting" and break; the loop is
\* left for the finally clause of run()
LoopBreak(p) ==
    /\ lpc[p] = "lost"
    /\ lpc' = [lpc EXCEPT ![p] = "release_get"]
    /\ UNCHANGED <<lockVal, lockTtl, shutdown, refused>>

\* renew_lock, line 129: EXPIRE key 180 acts on the key as it is now
RenewExpire(p) ==
    /\ lpc[p] = "renew_expire"
    /\ lockTtl' = IF lockVal # Null THEN LockTtlTicks ELSE lockTtl
    /\ lpc' = [lpc EXCEPT ![p] = "tick"]
    /\ UNCHANGED <<lockVal, shutdown, refused>>

\* run, line 486: process_schedules()
ProcessSchedulesStep(p) ==
    /\ lpc[p] = "tick"
    /\ lpc' = [lpc EXCEPT ![p] = "update"]
    /\ UNCHANGED <<lockVal, lockTtl, shutdown, refused>>

\* run, line 489: update_scheduler_state()
UpdateStateStep(p) ==
    /\ lpc[p] = "update"
    /\ lpc' = [lpc EXCEPT ![p] = "sleep"]
    /\ UNCHANGED <<lockVal, lockTtl, shutdown, refused>>

\* run, lines 492-499: sleep_time = max(0, tick_interval - elapsed); a slow
\* tick leaves nothing to sleep
WakeUp(p) ==
    /\ lpc[p] = "sleep"
    /\ lpc' = [lpc EXCEPT ![p] = "loop"]
    /\ UNCHANGED <<lockVal, lockTtl, shutdown, refused>>

\* One tick interval of wall-clock time passes: sleepers wake, the key's TTL
\* runs down and Redis removes the key when it reaches zero.
Elapse ==
    /\ lockVal # Null \/ \E p \in SchedulerProcs : lpc[p] = "sleep"
    /\ lockTtl' = IF lockVal # Null THEN lockTtl - 1 ELSE lockTtl
    /\ lockVal' = IF lockVal # Null /\ lockTtl = 1 THEN Null ELSE lockVal
    /\ lpc' = [p \in SchedulerProcs |-> IF lpc[p] = "sleep" THEN "loop" ELSE lpc[p]]
    /\ UNCHANGED <<shutdown, refused>>

\* release_lock, lines 141-142: GET and compare with os.getpid().  It is
\* called in the finally clause of run() (position "release_get") and again
\* in the finally clause of main() (position "final_get").
ReleaseGet(p) ==
    /\ lpc[p] \in {"release_get", "final_get"}
    /\ lpc' = [lpc EXCEPT ![p] =
                  IF lockVal = Some(p)
                  THEN (IF lpc[p] = "release_get" THEN "release_del" ELSE "final_del")
                  ELSE (IF lpc[p] = "release_get" THEN "final_get" ELSE "exited")]
    /\ UNCHANGED <<lockVal, lockTtl, shutdown, refused>>

\* release_lock, lines 144-146: DELETE the key, whatever it holds by now
ReleaseDelete(p) ==
    /\ lpc[p] \in {"release_del", "final_del"}
    /\ lockVal' = Null
    /\ lockTtl' = 0
    /\ lpc' = [lpc EXCEPT ![p] = IF lpc[p] = "release_del" THEN "final_get" ELSE "exited"]
    /\ UNCHANGED <<shutdown, refused>>

\* main, lines 521-525: SIGTERM / SIGINT sets shutdown_requested
ShutdownSignal(p) ==
    /\ Alive(p)
    /\ ~shutdown[p]
    /\ shutdown' = [shutdown EXCEPT ![p] = TRUE]
    /\ UNCHANGED <<lockVal, lockTtl, lpc, refused>>

\* the process is killed (SIGKILL, host failure): nothing is released
Crash(p) ==
    /\ Alive(p)
    /\ lpc' = [lpc EXCEPT ![p] = "dead"]
    /\ UNCHANGED <<lockVal, lockTtl, shutdown, refused>>

LeaderNext ==
    \/ \E p \in SchedulerProcs : StartScheduler(p) /\ LeaderFrame
    \/ \E p \in SchedulerProcs : StaleGet(p) /\ LeaderFrame
    \/ \E p \in SchedulerProcs : StaleDelete(p) /\ LeaderFrame
    \/ \E p \in SchedulerProcs : SetNx(p) /\ LeaderFrame
    \/ \E p \in SchedulerProcs, raised \in BOOLEAN : StartUpPass(p, raised) /\ LeaderFrame
    \/ \E p \in SchedulerProcs : LoopTest(p) /\ LeaderFrame
    \/ \E p \in SchedulerProcs, u \in BOOLEAN : RenewGet(p, u) /\ LeaderFrame
    \/ \E p \in SchedulerProcs : LoopBreak(p) /\ LeaderFrame
    \/ \E p \in SchedulerProcs : RenewExpire(p) /\ LeaderFrame
    \/ \E p \in SchedulerProcs : ProcessSchedulesStep(p) /\ LeaderFrame
    \/ \E p \in SchedulerProcs : UpdateStateStep(p) /\ LeaderFrame
    \/ \E p \in SchedulerProcs : WakeUp(p) /\ LeaderFrame
    \/ Elapse /\ LeaderFrame
    \/ \E p \in SchedulerProcs : ReleaseGet(p) /\ LeaderFrame
    \/ \E p \in SchedulerProcs : ReleaseDelete(p) /\ LeaderFrame
    \/ \E p \in SchedulerProcs : ShutdownSignal(p) /\ LeaderFrame
    \/ \E p \in SchedulerProcs : Crash(p) /\ LeaderFrame

\* the ingestion pipeline at rest
IngestIdle ==
    /\ IngestInit(0, {}, {})
    /\ location = [d \in DeviceIds |-> ""]

\* ------------------------------------------------------------------------
\* Properties of the scheduler leadership
\* ------------------------------------------------------------------------
\* the process is inside the main loop of run(), executing process_schedules
\* or update_scheduler_state after a successful acquire_lock / renew_lock
Acting(p) == lpc[p] \in {"tick", "update"}

\* C3: at most one scheduler process acts as leader: no two processes are
\* both executing process_schedules / update_scheduler_state.
C3_SingleActiveScheduler ==
    \A p, q \in SchedulerProcs : (Acting(p) /\ Acting(q)) => p = q

\* C9: a scheduler that found the leadership lock held does not give up: it
\* never ends its run, it stays a standby that can still acquire the lock.
C9_StandbyKeepsRetrying ==
    \A p \in SchedulerProcs : refused[p] => lpc[p] \notin {"final_get", "final_del", "exited"}

\* positions of run() and main() behind the main loop
AfterLoop == {"lost", "release_get", "release_del", "final_get", "final_del", "exited"}

Executions == {1, 2}            \* executions of device.collect, each its own job

soft_time_limit == 300          \* @app.task(soft_time_limit=300, ...)
time_limit == 350               \* @app.task(time_limit=350, ...)
lock_margin == 60               \* redis_client.lock(..., timeout=timeout + 60)

\* time is counted in units of time_limit - soft_time_limit seconds
TimeUnit == time_limit - soft_time_limit
SoftUnits == soft_time_limit \div TimeUnit
HardUnits == time_limit \div TimeUnit
DeviceLockUnits == (CollectTimeout + lock_margin) \div TimeUnit

WorkerInit ==
    /\ devLock = Null
    /\ devTtl = 0
    /\ wpc = [j \in Executions |-> "queued"]
    /\ age = [j \in Executions |-> 0]
    /\ softFired = [j \in Executions |-> FALSE]
    /\ streamW = <<>>

\* the execution is inside the task body
Running(j) == wpc[j] \in {"acquire", "plugin", "publish", "release"}

\* the broker hands the job to a worker process; lines 81-93
StartExecution(j) ==
    /\ wpc[j] = "queued"
    /\ wpc' = [wpc EXCEPT ![j] = "acquire"]
    /\ UNCHANGED <<devLock, devTtl, age, softFired, streamW>>

\* lines 95-106: lock.acquire(blocking=False); when the key exists, or the
\* lock store raises, the task returns its failure dict at once, before the
\* try block and without XADD
AcquireDeviceLock(j, unreachable) ==
    /\ wpc[j] = "acquire"
    /\ IF ~unreachable /\ devLock = Null
       THEN /\ devLock' = Some(j)
            /\ devTtl' = DeviceLockUnits
            /\ wpc' = [wpc EXCEPT ![j] = "plugin"]
       ELSE /\ wpc' = [wpc EXCEPT ![j] = "returned_locked"]
            /\ UNCHANGED <<devLock, devTtl>>
    /\ UNCHANGED <<age, softFired, streamW>>

\* lines 109-131.  get_plugin() returns None: RuntimeError, handled at
\* 177-180 (no XADD).  Otherwise plugin.run returns a result; an exception
\* raised inside the entrypoint, SoftTimeLimitExceeded included, is turned
\* into a failure result by BackupPlugin.run (plugins/base.py, 62-75).
PluginRun(j, outcome) ==
    /\ wpc[j] = "plugin"
    /\ softFired[j] => outcome = "failure"
    /\ wpc' = [wpc EXCEPT ![j] =
                  IF outcome = "unknown_plugin" THEN "release_unhandled"
                  ELSE IF outcome = "success" THEN "publish_success"
                  ELSE "publish_failure"]
    /\ UNCHANGED <<devLock, devTtl, age, softFired, streamW>>

\* lines 133-171: XADD the record; an error of XADD is logged and swallowed
PublishResult(j, xadd_ok) ==
    /\ wpc[j] \in {"publish_success", "publish_failure"}
    /\ streamW' = IF xadd_ok
                  THEN Append(streamW,
                              [ task_identifier |-> j,
                                status |-> IF wpc[j] = "publish_success"
                                           THEN "success" ELSE "failure" ])
                  ELSE streamW
    /\ wpc' = [wpc EXCEPT ![j] = "release_returned"]
    /\ UNCHANGED <<devLock, devTtl, age, softFired>>

\* SoftTimeLimitExceeded is raised in the execution when it has run for
\* soft_time_limit seconds.  Inside plugin.run it is caught by the plugin
\* wrapper; in the task's own lines of the try block it reaches the handler
\* of lines 173-176, which returns without XADD.
SoftTimeout(j, in_plugin) ==
    /\ wpc[j] = "plugin"
    /\ age[j] = SoftUnits
    /\ ~softFired[j]
    /\ softFired' = [softFired EXCEPT ![j] = TRUE]
    /\ wpc' = [wpc EXCEPT ![j] = IF in_plugin THEN "plugin" ELSE "release_timeout"]
    /\ UNCHANGED <<devLock, devTtl, age, streamW>>

\* the finally clause as it would be with a plain DELETE of the key
ReleaseDeviceLock_Unchecked(j) ==
    /\ wpc[j] \in {"release_returned", "release_timeout", "release_unhandled"}
    /\ devLock' = Null
    /\ devTtl' = 0
    /\ wpc' = [wpc EXCEPT ![j] =
                  CASE wpc[j] = "release_returned"  -> "returned"
                    [] wpc[j] = "release_timeout"   -> "returned_timeout"
                    [] wpc[j] = "release_unhandled" -> "returned_unhandled"]
    /\ UNCHANGED <<age, softFired, streamW>>

\* lines 181-186: lock.release() deletes the key only while it still holds
\* this execution's token (redis-py Lock); LockNotOwnedError is swallowed
ReleaseDeviceLock(j) ==
    /\ wpc[j] \in {"release_returned", "release_timeout", "release_unhandled"}
    /\ devLock' = IF devLock = Some(j) THEN Null ELSE devLock
    /\ devTtl' = IF devLock = Some(j) THEN 0 ELSE devTtl
    /\ wpc' = [wpc EXCEPT ![j] =
                  CASE wpc[j] = "release_returned"  -> "returned"
                    [] wpc[j] = "release_timeout"   -> "returned_timeout"
                    [] wpc[j] = "release_unhandled" -> "returned_unhandled"]
    /\ UNCHANGED <<age, softFired, streamW>>

\* time_limit: the worker process running the execution is killed
HardKill(j) ==
    /\ wpc[j] = "plugin"
    /\ age[j] = HardUnits
    /\ wpc' = [wpc EXCEPT ![j] = "killed"]
    /\ UNCHANGED <<devLock, devTtl, age, softFired, streamW>>

\* Redis removes the key when its TTL has run out
ExpireDeviceLock ==
    /\ devLock # Null
    /\ devTtl = 0
    /\ devLock' = Null
    /\ UNCHANGED <<devTtl, wpc, age, softFired, streamW>>

\* One time unit passes while executions are inside plugin.run.  The steps
\* around it (lock, XADD, release) are short and end within the current unit,
\* a due time limit is delivered and a run-down key is removed before the
\* next unit begins.
WorkerElapse ==
    /\ \E j \in Executions : wpc[j] = "plugin"
    /\ \A j \in Executions :
           /\ Running(j) => wpc[j] = "plugin"
           /\ wpc[j] = "plugin" => /\ age[j] < HardUnits
                                   /\ age[j] = SoftUnits => softFired[j]
    /\ ~(devLock # Null /\ devTtl = 0)
    /\ age' = [j \in Executions |-> IF wpc[j] = "plugin" THEN age[j] + 1 ELSE age[j]]
    /\ devTtl' = IF devLock # Null THEN devTtl - 1 ELSE devTtl
    /\ UNCHANGED <<devLock, wpc, softFired, streamW>>

WorkerNext ==
    \/ \E j \in Executions : StartExecution(j) /\ WorkerFrame
    \/ \E j \in Executions, u \in BOOLEAN : AcquireDeviceLock(j, u) /\ WorkerFrame
    \/ \E j \in Executions, o \in {"success", "failure", "unknown_plugin"} :
           PluginRun(j, o) /\ WorkerFrame
    \/ \E j \in Executions, ok \in BOOLEAN : PublishResult(j, ok) /\ WorkerFrame
    \/ \E j \in Executions, ip \in BOOLEAN : SoftTimeout(j, ip) /\ WorkerFrame
    \/ \E j \in Executions : ReleaseDeviceLock(j) /\ WorkerFrame
    \/ \E j \in Executions : HardKill(j) /\ WorkerFrame
    \/ ExpireDeviceLock /\ WorkerFrame
    \/ WorkerElapse /\ WorkerFrame

\* ------------------------------------------------------------------------
\* Properties of the collection worker
\* ------------------------------------------------------------------------
\* the execution acquired lock:device:1 and is inside plugin.run
InPluginRun(j) == wpc[j] = "plugin"

\* the execution has ended by returning from device_collect_task
Returned(j) ==
    wpc[j] \in {"returned", "returned_locked", "returned_timeout", "returned_unhandled"}

\* C4: per-device mutual exclusion: of the device.collect executions of one
\* device at most one is between its successful acquisition of the lock and
\* its release, inside plugin.run; an execution whose non-blocking attempt
\* fails has returned at once.
C4_DeviceMutualExclusion ==
    \A j, k \in Executions : (InPluginRun(j) /\ InPluginRun(k)) => j = k

\* C5: every execution of device.collect that has ended - success, failure,
\* lock contention, unhandled exception or soft timeout - has appended one
\* record with its task_identifier to device:results.
C5_EveryEndPublishes ==
    \A j \in Executions :
        Returned(j) => Cardinality(WithTid(streamW, j)) = 1

\* the execution is in the finally clause, about to call lock.release()
Releasing(j) == wpc[j] \in {"release_returned", "release_timeout", "release_unhandled"}

\* the execution acquired the lock and has returned from device_collect_task
ReturnedAfterAcquire(j) ==
    wpc[j] \in {"returned", "returned_timeout", "returned_unhandled"}

Minute == 60
Hour == 60 * Minute
Day == 24 * Hour

\* days before the first day of month m (1..12), and the length of month m
DaysBefore == <<0, 31, 59, 90, 120, 151, 181, 212, 243, 273, 304, 334>>
MonthLength == <<31, 28, 31, 30, 31, 30, 31, 31, 30, 31, 30, 31>>
YearLength == DaysBefore[12] + MonthLength[12]

\* datetime fields of a local time l (seconds): day number, year index, month,
\* day of month, weekday() with Monday = 0 (2025-01-01 is a Wednesday)
DayNo(l) == l \div Day
YearIx(l) == DayNo(l) \div YearLength
MonthOf(l) ==
    LET doy == DayNo(l) % YearLength
    IN  CHOOSE m \in 1..12 : DaysBefore[m] <= doy /\ doy < DaysBefore[m] + MonthLength[m]
DayOfMonth(l) == (DayNo(l) % YearLength) - DaysBefore[MonthOf(l)] + 1
Weekday(l) == (DayNo(l) + 2) % 7

\* utc_to_local / local_to_utc: astimezone() between UTC and the display zone
utc_to_local(t) == t + tzOffset
local_to_utc(l) == l - tzOffset

\* l.replace(hour=h, minute=mi, second=0, microsecond=0)
AtTime(l, h, mi) == DayNo(l) * Day + h * Hour + mi * Minute

\* l.replace(year, month, day, hour, minute, second=0): Null stands for the
\* ValueError that datetime.replace raises for a day the month does not have
AtDate(y, m, d, h, mi) ==
    IF d > MonthLength[m] THEN Null
    ELSE Some((y * YearLength + DaysBefore[m] + d - 1) * Day + h * Hour + mi * Minute)

\* calculate_next_run as it would be if a daily run at today's h:m were kept
\* when from_time is exactly h:m:00 ("<" in place of "<=")
calculate_next_run_Inclusive(schedule, from_time) ==
    LET current_display == utc_to_local(from_time)
        today == AtTime(current_display, schedule.hour, schedule.minute)
    IN  CASE schedule.schedule_type = "weekly" ->
                LET current_dow == (Weekday(current_display) + 1) % 7
                    days_ahead == (schedule.day_of_week - current_dow + 7) % 7
                    next_run == today + days_ahead * Day
                IN  IF days_ahead = 0 /\ next_run <= current_display
                    THEN Some(next_run + 7 * Day) ELSE Some(next_run)
          [] schedule.schedule_type = "monthly" ->
                LET y == YearIx(current_display)
                    m == MonthOf(current_display)
                    next_run == AtDate(y, m, schedule.day_of_month,
                                       schedule.hour, schedule.minute)
                IN  IF next_run = Null THEN Null
                    ELSE IF \A n \in next_run : n > current_display THEN next_run
                    ELSE IF m = 12
                         THEN AtDate(y + 1, 1, schedule.day_of_month,
                                     schedule.hour, schedule.minute)
                         ELSE AtDate(y, m + 1, schedule.day_of_month,
                                     schedule.hour, schedule.minute)
          [] OTHER ->
                IF today < current_display THEN Some(today + Day) ELSE Some(today)

\* calculate_next_run(schedule, from_time): Some(local time) or Null (ValueError)
calculate_next_run(schedule, from_time) ==
    LET current_display == utc_to_local(from_time)
        today == AtTime(current_display, schedule.hour, schedule.minute)
    IN  CASE schedule.schedule_type = "weekly" ->
                LET current_dow == (Weekday(current_display) + 1) % 7
                    days_ahead == (schedule.day_of_week - current_dow + 7) % 7
                    next_run == today + days_ahead * Day
                IN  IF days_ahead = 0 /\ next_run <= current_display
                    THEN Some(next_run + 7 * Day) ELSE Some(next_run)
          [] schedule.schedule_type = "monthly" ->
                LET y == YearIx(current_display)
                    m == MonthOf(current_display)
                    next_run == AtDate(y, m, schedule.day_of_month,
                                       schedule.hour, schedule.minute)
                IN  IF next_run = Null THEN Null
                    ELSE IF \A n \in next_run : n > current_display THEN next_run
                    ELSE IF m = 12
                         THEN AtDate(y + 1, 1, schedule.day_of_month,
                                     schedule.hour, schedule.minute)
                         ELSE AtDate(y, m + 1, schedule.day_of_month,
                                     schedule.hour, schedule.minute)
          [] OTHER ->   \* daily, and custom_cron "defaulting to daily"
                IF today <= current_display THEN Some(today + Day) ELSE Some(today)

\* signals.calculate_next_run(schedule), run by post_save when a schedule is
\* created or modified at now_utc: the UTC instant stored in next_run_at.  The
\* monthly branch catches the ValueError and falls back to
\* current_display.replace(month + 1, day=1), which keeps the time of day of
\* the moment of the save.
signals_calculate_next_run(schedule, now_utc) ==
    LET current_display == utc_to_local(now_utc)
        today == AtTime(current_display, schedule.hour, schedule.minute)
        next_run ==
          CASE schedule.schedule_type = "weekly" ->
                LET current_dow == (Weekday(current_display) + 1) % 7
                    days_ahead == (schedule.day_of_week - current_dow + 7) % 7
                    nr == today + days_ahead * Day
                IN  IF days_ahead = 0 /\ nr <= current_display
                    THEN Some(nr + 7 * Day) ELSE Some(nr)
            [] schedule.schedule_type = "monthly" ->
                LET y == YearIx(current_display)
                    m == MonthOf(current_display)
                    first == AtDate(y, m, schedule.day_of_month,
                                    schedule.hour, schedule.minute)
                    tried == IF first = Null THEN Null
                             ELSE IF \A n \in first : n > current_display THEN first
                             ELSE IF m = 12
                                  THEN AtDate(y + 1, 1, schedule.day_of_month,
                                              schedule.hour, schedule.minute)
                                  ELSE AtDate(y, m + 1, schedule.day_of_month,
                                              schedule.hour, schedule.minute)
                    time_of_day == current_display % Day
                    fallback == IF m = 12
                                THEN {x + time_of_day : x \in AtDate(y + 1, 1, 1, 0, 0)}
                                ELSE {x + time_of_day : x \in AtDate(y, m + 1, 1, 0, 0)}
                IN  IF tried = Null THEN fallback ELSE tried
            [] OTHER ->
                IF today <= current_display THEN Some(today + Day) ELSE Some(today)
    IN  {local_to_utc(l) : l \in next_run}

\* the UTC instant of calculate_next_run, Null when it raised
NextRunUtc(schedule, from_time) ==
    {local_to_utc(l) : l \in calculate_next_run(schedule, from_time)}

\* the instant as it would be if last_run_at were ignored
DueInstant_FromYesterday(schedule, lra, current_time) ==
    NextRunUtc(schedule, current_time - Day)

\* the instant is_backup_due compares current_time with: the next run after
\* last_run_at (lra), or after current_time - 1 day for a schedule never run
DueInstant(schedule, lra, current_time) ==
    IF lra # Null
    THEN UNION {NextRunUtc(schedule, t) : t \in lra}
    ELSE NextRunUtc(schedule, current_time - Day)

\* is_backup_due(schedule, current_time): "due", "not_due", or "raise" when
\* calculate_next_run raised
is_backup_due(schedule, lra, current_time) ==
    LET next_run_utc == DueInstant(schedule, lra, current_time)
    IN  IF next_run_utc = Null THEN "raise"
        ELSE IF \A r \in next_run_utc : current_time >= r THEN "due"
        ELSE "not_due"

\* ------------------------------------------------------------------------
\* Scheduler: start-up catch-up and dispatch ticks
\* ------------------------------------------------------------------------
MaxAdvances == 4            \* clock steps in one behaviour
MaxStarts == 2              \* scheduler starts in one behaviour

restart_window_minutes == 120   \* config default of restart_window_minutes
guard_days == 365               \* "don't check more than 365 days worth"

\* schedule rows the model chooses from; all are due at 02:00
DailySchedule ==
    [schedule_type |-> "daily", hour |-> 2, minute |-> 0,
     day_of_week |-> 0, day_of_month |-> 1]

\* the first schedule of the queryset is one of these, the second is daily
ScheduleChoices ==
    { DailySchedule,
      [schedule_type |-> "weekly", hour |-> 2, minute |-> 0,
       day_of_week |-> 3, day_of_month |-> 1],
      [schedule_type |-> "monthly", hour |-> 2, minute |-> 0,
       day_of_week |-> 0, day_of_month |-> 30],
      [schedule_type |-> "monthly", hour |-> 2, minute |-> 0,
       day_of_week |-> 0, day_of_month |-> 31] }

\* enabled devices of the schedules, by position of the schedule
ScheduleDevices == <<{1}, {2}>>
SchedDeviceIds == UNION Range(ScheduleDevices)

\* sets of devices for which send_task raises during one pass
FailChoices == {{}, {1}, {1, 2}}

DisplayOffsets == {0, 10 * Hour}    \* UTC, and a zone ten hours ahead of UTC

\* the clock starts at 2025-04-30 01:30 local time (a Wednesday)
StartLocal == (DaysBefore[4] + 29) * Day + Hour + 30 * Minute

\* an outage longer than the guard of the catch-up walk plus the longest gap
\* between two instants of a monthly schedule
LongOutage == (guard_days + MonthLength[1] + MonthLength[3] + 1) * Day

\* lengths of the clock steps taken while no scheduler runs
OutageSteps == {30 * Minute, 2 * Hour, Day, LongOutage}

\* the calendar of the model ends with 2026
CalendarEnd == 2 * YearLength * Day

SchedInit ==
    /\ tzOffset \in DisplayOffsets
    /\ snow = StartLocal - tzOffset
    /\ \E c \in ScheduleChoices : schedules = <<c, DailySchedule>>
    /\ last_run_at = [i \in 1..Len(ScheduleDevices) |-> Null]
    /\ last_tick = Null
    /\ sphase = "down"
    /\ tickDone = FALSE
    /\ sjobs = <<>>
    /\ missed = <<>>
    /\ outages = {}
    /\ advances = 0
    /\ starts = 0

\* the elements of a finite set of numbers in increasing order
RECURSIVE SortedSeq(_)
SortedSeq(S) ==
    IF S = {} THEN <<>>
    ELSE LET x == CHOOSE y \in S : \A z \in S : y <= z
         IN  <<x>> \o SortedSeq(S \ {x})

\* The while loop of process_missed_backups for one schedule, lines 310-333:
\* the instants it visits, classified, whether calculate_next_run raised, and
\* for every iteration that reached line 330 the check_time it began with and
\* the next run it computed (steps).
RECURSIVE CatchUpWalk(_, _, _, _, _)
CatchUpWalk(i, check_time, lt, now, restart_cutoff) ==
    IF ~(check_time < now) THEN [events |-> <<>>, raised |-> FALSE, steps |-> <<>>]
    ELSE LET next_run == NextRunUtc(schedules[i], check_time)
         IN  IF next_run = Null THEN [events |-> <<>>, raised |-> TRUE, steps |-> <<>>]
             ELSE LET next_run_utc == CHOOSE r \in next_run : TRUE
                      ev == IF lt < next_run_utc /\ next_run_utc <= now
                            THEN << [ sched   |-> i,
                                      kind    |-> IF next_run_utc >= restart_cutoff
                                                  THEN "scheduled_catchup" ELSE "missed",
                                      instant |-> next_run_utc ] >>
                            ELSE <<>>
                      next_check == next_run_utc + 1
                      step == << [check_time |-> check_time, next_run_utc |-> next_run_utc] >>
                  IN  IF (now - next_check) \div Day > guard_days
                      THEN [events |-> ev, raised |-> FALSE, steps |-> step]
                      ELSE LET rest == CatchUpWalk(i, next_check, lt, now, restart_cutoff)
                           IN  [events |-> ev \o rest.events, raised |-> rest.raised,
                                steps |-> step \o rest.steps]

\* The for loop of process_missed_backups over the schedules, lines 297-333;
\* an exception of one schedule ends the pass.
RECURSIVE MissedPass(_, _, _)
MissedPass(i, lt, now) ==
    IF i > Len(schedules) THEN [events |-> <<>>, raised |-> FALSE]
    ELSE IF ScheduleDevices[i] = {} THEN MissedPass(i + 1, lt, now)
    ELSE LET w == CatchUpWalk(i, lt, lt, now, now - restart_window_minutes * Minute)
         IN  IF w.raised THEN w
             ELSE LET rest == MissedPass(i + 1, lt, now)
                  IN  [events |-> w.events \o rest.events, raised |-> rest.raised]

\* enqueue_device_backup, lines 367-400: one call per device; send_task fails
\* for the devices in fail and the exception is swallowed
EnqueueCalls(i, kind, instant, now, fail) ==
    LET ds == SortedSeq(ScheduleDevices[i])
    IN  [k \in 1..Len(ds) |->
            [ task_identifier |-> <<kind, ds[k], now>>,
              device          |-> ds[k],
              instant         |-> instant,
              sent            |-> ds[k] \notin fail ]]

\* create_missed_backup_result, lines 335-365: one row per device
MissedRows(i, instant, now) ==
    LET ds == SortedSeq(ScheduleDevices[i])
    IN  [k \in 1..Len(ds) |->
            [ task_identifier |-> <<"missed", ds[k], instant>>,
              device          |-> ds[k],
              status          |-> "missed_window",
              timestamp       |-> now ]]

RECURSIVE CatchUpJobs(_, _, _, _)
CatchUpJobs(events, k, now, fail) ==
    IF k > Len(events) THEN <<>>
    ELSE (IF events[k].kind = "scheduled_catchup"
          THEN EnqueueCalls(events[k].sched, "scheduled_catchup", events[k].instant, now, fail)
          ELSE <<>>) \o CatchUpJobs(events, k + 1, now, fail)

RECURSIVE CatchUpMissed(_, _, _)
CatchUpMissed(events, k, now) ==
    IF k > Len(events) THEN <<>>
    ELSE (IF events[k].kind = "missed"
          THEN MissedRows(events[k].sched, events[k].instant, now)
          ELSE <<>>) \o CatchUpMissed(events, k + 1, now)

\* process_missed_backups, lines 279-333
process_missed_backups(lt, now) ==
    IF lt = Null THEN [events |-> <<>>, raised |-> FALSE]
    ELSE MissedPass(1, CHOOSE t \in lt : TRUE, now)

\* run(), lines 454-474: a scheduler process starts (the leadership lock is
\* the subject of SpecLeader) and makes its catch-up pass.  An exception of
\* process_missed_backups leaves run() and the process ends.
SchedStart(fail) ==
    /\ sphase = "down"
    /\ starts < MaxStarts
    /\ LET pass == process_missed_backups(last_tick, snow)
       IN  /\ sjobs' = sjobs \o CatchUpJobs(pass.events, 1, snow, fail)
           /\ missed' = missed \o CatchUpMissed(pass.events, 1, snow)
           /\ sphase' = IF pass.raised THEN "down" ELSE "up"
    /\ outages' = outages \cup {[from |-> t, to |-> snow] : t \in last_tick}
    /\ tickDone' = FALSE
    /\ starts' = starts + 1
    /\ UNCHANGED <<snow, tzOffset, schedules, last_run_at, last_tick, advances>>

\* process_schedules, lines 402-442, from schedule i on: the calls made and the
\* last_run_at values saved.  An exception (is_backup_due, or the computation
\* of next_run_at before save()) ends the loop; it is logged at line 442.
RECURSIVE TickPass(_, _, _, _)
TickPass(i, lra, now, fail) ==
    IF i > Len(schedules) THEN [jobs |-> <<>>, lra |-> lra]
    ELSE LET due == is_backup_due(schedules[i], lra[i], now)
         IN  IF due = "raise" THEN [jobs |-> <<>>, lra |-> lra]
             ELSE IF due = "not_due" \/ ScheduleDevices[i] = {}
             THEN TickPass(i + 1, lra, now, fail)
             ELSE LET instant == CHOOSE r \in DueInstant(schedules[i], lra[i], now) : TRUE
                      calls == EnqueueCalls(i, "scheduled", instant, now, fail)
                  IN  IF calculate_next_run(schedules[i], now) = Null
                      THEN [jobs |-> calls, lra |-> lra]
                      ELSE LET rest == TickPass(i + 1, [lra EXCEPT ![i] = Some(now)],
                                                now, fail)
                           IN  [jobs |-> calls \o rest.jobs, lra |-> rest.lra]

\* one iteration of the main loop of run(), lines 478-489: process_schedules
\* and update_scheduler_state
SchedTick(fail) ==
    /\ sphase = "up"
    /\ ~tickDone
    /\ LET pass == TickPass(1, last_run_at, snow, fail)
       IN  /\ sjobs' = sjobs \o pass.jobs
           /\ last_run_at' = pass.lra
    /\ last_tick' = Some(snow)
    /\ tickDone' = TRUE
    /\ UNCHANGED <<snow, tzOffset, schedules, sphase, missed, outages, advances, starts>>

\* the scheduler process ends: shutdown, crash, loss of the lock
SchedStop ==
    /\ sphase = "up"
    /\ sphase' = "down"
    /\ tickDone' = FALSE
    /\ UNCHANGED <<snow, tzOffset, schedules, last_run_at, last_tick, sjobs, missed,
                   outages, advances, starts>>

\* The clock moves: by tick_interval from one tick of a running scheduler to
\* the next (lines 491-499), by an outage step while none runs.
SchedAdvance(dt) ==
    /\ advances < MaxAdvances
    /\ IF sphase = "up" THEN tickDone /\ dt = tick_interval ELSE dt \in OutageSteps
    /\ snow + dt + tzOffset < CalendarEnd
    /\ snow' = snow + dt
    /\ advances' = advances + 1
    /\ tickDone' = FALSE
    /\ UNCHANGED <<tzOffset, schedules, last_run_at, last_tick, sphase, sjobs, missed,
                   outages, starts>>

SchedNext ==
    \/ \E f \in FailChoices : SchedStart(f) /\ SchedFrame
    \/ \E f \in FailChoices : SchedTick(f) /\ SchedFrame
    \/ SchedStop /\ SchedFrame
    \/ \E dt \in OutageSteps \cup {tick_interval} : SchedAdvance(dt) /\ SchedFrame

\* the scheduler at rest, with no schedule rows that matter
SchedIdle ==
    /\ SchedInit
    /\ tzOffset = 0
    /\ schedules = <<DailySchedule, DailySchedule>>

\* ------------------------------------------------------------------------
\* Properties of the scheduler
\* ------------------------------------------------------------------------
\* the local day (with the schedule's time of day) is a day of the schedule
OnScheduledDay(schedule, l) ==
    CASE schedule.schedule_type = "weekly"  -> (Weekday(l) + 1) % 7 = schedule.day_of_week
      [] schedule.schedule_type = "monthly" -> DayOfMonth(l) = schedule.day_of_month
      [] OTHER -> TRUE

\* the recurrence instants r of the schedule with lo < r <= hi, from the
\* calendar and not from calculate_next_run
Instants(schedule, lo, hi) ==
    { r \in { local_to_utc(d * Day + schedule.hour * Hour + schedule.minute * Minute) :
                  d \in DayNo(utc_to_local(lo)) .. DayNo(utc_to_local(hi)) } :
          /\ lo < r /\ r <= hi
          /\ OnScheduledDay(schedule, utc_to_local(r)) }

\* calls of enqueue_device_backup in the sequence js made for device d because
\* of instant r, and missed_window rows of the sequence ms for d and r
JobsFor(js, d, r) == {k \in 1..Len(js) : js[k].device = d /\ js[k].instant = r}
MissedFor(ms, d, r) == {k \in 1..Len(ms) : ms[k].task_identifier = <<"missed", d, r>>}

\* C6: every recurrence instant that fell due during an outage is handled
\* exactly once per device: an instant older than the restart window has one
\* missed_window row and no job, an instant inside it has exactly one job - the
\* ticks after the catch-up pass add none for it.
C6_MissedInstantHandledOnce ==
    \A w \in outages : \A i \in 1..Len(schedules) : \A d \in ScheduleDevices[i] :
        \A r \in Instants(schedules[i], w.from, w.to) :
            IF r < w.to - restart_window_minutes * Minute
            THEN /\ Cardinality(MissedFor(missed, d, r)) = 1
                 /\ JobsFor(sjobs, d, r) = {}
            ELSE /\ Cardinality(JobsFor(sjobs, d, r)) = 1
                 /\ MissedFor(missed, d, r) = {}

\* C7: the catch-up pass of a start with last_tick set enqueues a catch-up job
\* per device for every recurrence instant r, last_tick < r <= now, with
\* r >= now - restart_window_minutes, and writes a missed_window row per device
\* for every older one; with last_tick null it does neither.
C7_CatchUpClassification ==
    [][starts' = starts + 1 =>
        LET newJobs == SubSeq(sjobs', Len(sjobs) + 1, Len(sjobs'))
            newMissed == SubSeq(missed', Len(missed) + 1, Len(missed'))
        IN  IF last_tick = Null
            THEN newJobs = <<>> /\ newMissed = <<>>
            ELSE \A lt \in last_tick : \A i \in 1..Len(schedules) :
                 \A d \in ScheduleDevices[i] :
                 \A r \in Instants(schedules[i], lt, snow) :
                     IF r >= snow - restart_window_minutes * Minute
                     THEN /\ \E k \in JobsFor(newJobs, d, r) :
                                 newJobs[k].task_identifier[1] = "scheduled_catchup"
                          /\ MissedFor(newMissed, d, r) = {}
                     ELSE /\ \E k \in MissedFor(newMissed, d, r) :
                                 newMissed[k].status = "missed_window"
                          /\ JobsFor(newJobs, d, r) = {}]_vars


\* a step that is one run of process_schedules, and the calls it made
TickStep == sphase = "up" /\ ~tickDone /\ tickDone'
TickCalls == SubSeq(sjobs', Len(sjobs) + 1, Len(sjobs'))

\* schedule i is due at the tick about to run and has enabled devices
DueNow(i) ==
    /\ is_backup_due(schedules[i], last_run_at[i], snow) = "due"
    /\ ScheduleDevices[i] # {}

\* C11: in one run of process_schedules the enqueue is attempted for every
\* device of every schedule that is due, whatever error another schedule or
\* another device of the same tick ran into.
C11_TickFailureIsolation ==
    [][TickStep =>
        \A i \in 1..Len(schedules) : DueNow(i) =>
            \A d \in ScheduleDevices[i] :
                \E k \in 1..Len(TickCalls) : TickCalls[k].device = d]_vars

\* C12: when every enqueue attempted for a due schedule in a tick failed, the
\* schedule is due again at the next tick: the recurrence is not consumed.
C12_FailedTickRetried ==
    [][TickStep =>
        \A i \in 1..Len(schedules) :
            ( /\ DueNow(i)
              /\ \E k \in 1..Len(TickCalls) : TickCalls[k].device \in ScheduleDevices[i]
              /\ \A k \in 1..Len(TickCalls) :
                    TickCalls[k].device \in ScheduleDevices[i] => ~TickCalls[k].sent )
            => is_backup_due(schedules[i], last_run_at'[i], snow + tick_interval) = "due"]_vars

\* C13: the catch-up pass of a start with last_tick set leaves no recurrence
\* instant r, last_tick < r <= now, of a schedule with enabled devices without
\* a catch-up job or a missed_window row, however long the outage was.
C13_NoSilentGaps ==
    [][(starts' = starts + 1 /\ last_tick # Null) =>
        LET newJobs == SubSeq(sjobs', Len(sjobs) + 1, Len(sjobs'))
            newMissed == SubSeq(missed', Len(missed) + 1, Len(missed'))
        IN  \A lt \in last_tick : \A i \in 1..Len(schedules) :
            \A d \in ScheduleDevices[i] :
            \A r \in Instants(schedules[i], lt, snow) :
                \/ JobsFor(newJobs, d, r) # {}
                \/ MissedFor(newMissed, d, r) # {}]_vars


\* the instants the scheduler passes to calculate_next_run as from_time: now,
\* now - 1 day (schedule never run), last_run_at, last_tick
ReferenceInstants ==
    {snow, snow - Day} \cup last_tick \cup UNION Range(last_run_at)

\* the local times with time of day h:m:00 on the day of l, the day before
\* and the day after
DailyTimes(schedule, l) ==
    {AtTime(l, schedule.hour, schedule.minute) + k * Day : k \in -1..1}

\* the least element of a non-empty set of numbers
Least(S) == CHOOSE x \in S : \A y \in S : x <= y

\* C17 as stated: for a daily schedule and every reference instant t,
\* calculate_next_run returns the earliest local time at or after t whose time
\* of day is h:m:00.
C17_DailyAtOrAfter ==
    \A i \in 1..Len(schedules) : schedules[i].schedule_type = "daily" =>
        \A t \in ReferenceInstants :
            calculate_next_run(schedules[i], t) =
                Some(Least({x \in DailyTimes(schedules[i], utc_to_local(t)) :
                                x >= utc_to_local(t)}))

\* C17 amended: for a daily schedule and every reference instant t,
\* calculate_next_run returns the earliest local time strictly after t whose
\* time of day is h:m:00: today when t is before h:m:00, tomorrow when t is at
\* or after h:m:00.
C17_DailyStrictlyAfter ==
    \A i \in 1..Len(schedules) : schedules[i].schedule_type = "daily" =>
        \A t \in ReferenceInstants :
            LET l == utc_to_local(t)
                today == AtTime(l, schedules[i].hour, schedules[i].minute)
            IN  /\ calculate_next_run(schedules[i], t) =
                       Some(Least({x \in DailyTimes(schedules[i], l) : x > l}))
                /\ calculate_next_run(schedules[i], t) =
                       IF l < today THEN Some(today) ELSE Some(today + Day)

\* C17 witness: a tick at exactly h:m:00 local time dispatched a daily
\* schedule, and calculate_next_run was applied to that instant
C17_TickAtScheduleTime ==
    \E i \in 1..Len(schedules) :
        /\ schedules[i].schedule_type = "daily"
        /\ last_run_at[i] = Some(snow)
        /\ utc_to_local(snow) =
               AtTime(utc_to_local(snow), schedules[i].hour, schedules[i].minute)


\* the month after month m, and whether a monthly run evaluated at local time
\* l meets a month without the schedule's day_of_month: the current month, or
\* the next one when this month's run has passed
NextMonth(m) == IF m = 12 THEN 1 ELSE m + 1
MonthlyEdge(schedule, l) ==
    LET m == MonthOf(l)
        this == AtDate(YearIx(l), m, schedule.day_of_month, schedule.hour, schedule.minute)
    IN  \/ this = Null
        \/ /\ \A x \in this : x <= l
           /\ schedule.day_of_month > MonthLength[NextMonth(m)]

\* C18: for a monthly schedule evaluated in a month that lacks its
\* day_of_month, the scheduler's calculate_next_run and the save-time
\* signals.calculate_next_run both return a next run - no error - that lies
\* after the reference instant on day 1 of a month.
C18_MonthlyInvalidDay ==
    \A i \in 1..Len(schedules) : schedules[i].schedule_type = "monthly" =>
        /\ \A t \in ReferenceInstants : MonthlyEdge(schedules[i], utc_to_local(t)) =>
               /\ calculate_next_run(schedules[i], t) # Null
               /\ \A x \in calculate_next_run(schedules[i], t) :
                      DayOfMonth(x) = 1 /\ x > utc_to_local(t)
        /\ MonthlyEdge(schedules[i], utc_to_local(snow)) =>
               /\ signals_calculate_next_run(schedules[i], snow) # Null
               /\ \A u \in signals_calculate_next_run(schedules[i], snow) :
                      DayOfMonth(utc_to_local(u)) = 1 /\ u > snow


\* ------------------------------------------------------------------------
\* Properties of the dispatchers
\* ------------------------------------------------------------------------
\* the fields of a job envelope
EnvelopeFields ==
    {"device_id", "task_identifier", "ip", "credentials", "backup_method",
     "plugin_params", "timeout"}

\* the queue the routing rule names for a device with this group
RuleQueue(group) ==
    {<<"collector.group", g.rabbitmq_queue_id>> : g \in group}

\* C21: every dispatched job - scheduled, catch-up, backup_now or collect -
\* has an envelope with the same set of fields, goes to
\* collector.group.<rabbitmq_queue_id> when the device has a collection group
\* and to the default queue otherwise, and two jobs of one device dispatched
\* at the same clock reading differ only in the trigger prefix of their
\* task_identifier.
C21_RoutingEquivalence ==
    \A j \in 1..Len(collectQueue) :
        LET job == collectQueue[j] IN
        /\ DOMAIN job.cfg = EnvelopeFields
        /\ job.queue = RuleQueue(job.group)
        /\ job.cfg.task_identifier[1] = job.trigger
        /\ \A k \in 1..Len(collectQueue) :
               LET other == collectQueue[k] IN
               ( /\ other.cfg.device_id = job.cfg.device_id
                 /\ other.cfg.task_identifier[3] = job.cfg.task_identifier[3] )
               => /\ [other.cfg EXCEPT !.task_identifier = <<>>]
                        = [job.cfg EXCEPT !.task_identifier = <<>>]
                  /\ other.cfg.task_identifier[2] = job.cfg.task_identifier[2]
                  /\ other.group = job.group => other.queue = job.queue

\* C21 witness: a scheduled job and a backup_now job of a device with a
\* collection group are queued, dispatched at the same clock reading
C21_ScheduledAndManual ==
    \E j, k \in 1..Len(collectQueue) :
        /\ collectQueue[j].trigger = "scheduled"
        /\ collectQueue[k].trigger = "backup_now"
        /\ collectQueue[j].group # Null
        /\ collectQueue[k].group # Null
        /\ collectQueue[j].cfg.task_identifier[3] = collectQueue[k].cfg.task_identifier[3]


\* C22: every outcome record that the consumer group has delivered is
\* acknowledged or is still in the hands of a running ingestor, which will
\* process and acknowledge it: no record is left pending with nobody to
\* process it, also when the ingestor that read it was killed before the
\* acknowledgement.
C22_DeliveredIsProcessed ==
    /\ \A idx \in 1..readA :
           \/ idx \in ackedA
           \/ \E i \in collectors : idx \in Range(ibatch[i])
    /\ \A idx \in 1..readB :
           \/ idx \in ackedB
           \/ \E i \in storers : idx \in Range(sbatch[i])


\* C23: whatever the sequence of scheduler starts, crashes and restarts, at
\* most one missed_window row exists per device and scheduled instant, i.e. per
\* task_identifier missed:<device id>:<scheduled instant>.
C23_OneMissedRowPerInstant ==
    \A k1, k2 \in 1..Len(missed) :
        missed[k1].task_identifier = missed[k2].task_identifier => k1 = k2


\* C24: for every DeviceBackupResult created with status success for a device
\* whose backup location maps to a supported backend, one storage job with the
\* same task_identifier is enqueued.  An acknowledged entry is never delivered
\* again and only the ingestor that created the row enqueues for it, so the
\* job has to be in the queue when that ingestor acknowledges the outcome -
\* also when send_task failed.
C24_StorageJobEnqueued ==
    [][\A i \in collectors :
         ( /\ ipc[i] = "enqueue"
           /\ Head(ibatch[i]) \in ackedA' \ ackedA
           /\ ~NoBackend(streamA[Head(ibatch[i])].device_id) )
         => /\ Len(storageQueue') = Len(storageQueue) + 1
            /\ storageQueue'[Len(storageQueue')].payload.task_identifier =
                   streamA[Head(ibatch[i])].task_identifier]_vars


\* C25: the DELETE of check_stale_lock and of release_lock never removes a
\* lock that a different live process holds at that moment: the value of the
\* key is then the deleting process's own id (release_lock) or the id of a
\* process that is not alive (check_stale_lock), whatever another process's
\* acquire_lock or a TTL expiry did between the GET and the DELETE.
C25_DeleteOnlyOwnOrDead ==
    [][\A p \in SchedulerProcs :
         ( /\ lpc[p] \in {"stale_del", "release_del", "final_del"}
           /\ lpc'[p] \notin {lpc[p], "dead"} )
         => \A h \in lockVal : h = p \/ ~Alive(h)]_vars


\* C26: any two distinct dispatches - scheduled, catch-up or manual, for the
\* same or for different devices, also two made at the same clock reading -
\* put envelopes with different task_identifier values on the broker.
C26_DistinctTaskIdentifiers ==
    \A k1, k2 \in 1..Len(collectQueue) :
        collectQueue[k1].cfg.task_identifier = collectQueue[k2].cfg.task_identifier
            => k1 = k2


C28_NeverRunDailyDispatched ==
    [][TickStep =>
        \A i \in 1..Len(schedules) :
            (schedules[i].schedule_type = "daily" /\ last_run_at[i] = Null)
            => /\ is_backup_due(schedules[i], last_run_at[i], snow) = "due"
               /\ \A d \in ScheduleDevices[i] :
                      \E k \in 1..Len(TickCalls) : TickCalls[k].device = d]_vars


\* the while loop of process_missed_backups for schedule i, started with
\* check_time = lt at clock reading now
WalkOf(i, lt, now) == CatchUpWalk(i, lt, lt, now, now - restart_window_minutes * Minute)

RowsOf(tbl, ds) == SelectIdx(tbl, {k \in 1..Len(tbl) : tbl[k].device \in ds}, 1)

\* the storage ingestor i persists a successful storage outcome of tid
StoresSuccess(i, tid) ==
    /\ spc[i] = "create"
    /\ StorerStep(i)
    /\ streamB[Head(sbatch[i])].status = "success"
    /\ streamB[Head(sbatch[i])].task_identifier = tid

InitIngest ==
    /\ IngestInit(MaxRaceDispatch, CollectorInstances, StorageInstances)
    /\ LeaderInit
    /\ WorkerInit
    /\ SchedIdle

SpecIngest == InitIngest /\ [][IngestNext]_vars

\* one ingestor instance per consumer group: deliveries are handled one after
\* the other
InitIngestSeq ==
    /\ IngestInit(MaxDispatch, {1}, {1})
    /\ LeaderInit
    /\ WorkerInit
    /\ SchedIdle

SpecIngestSeq == InitIngestSeq /\ [][IngestNext]_vars

\* scheduler daemons contending for the leadership lock
InitLeader ==
    /\ IngestIdle
    /\ LeaderInit
    /\ WorkerInit
    /\ SchedIdle

SpecLeader == InitLeader /\ [][LeaderNext]_vars

\* executions of device.collect contending for one device
InitWorker ==
    /\ IngestIdle
    /\ LeaderInit
    /\ WorkerInit
    /\ SchedIdle

SpecWorker == InitWorker /\ [][WorkerNext]_vars

\* one scheduler over its starts, ticks and outages
InitSched ==
    /\ IngestIdle
    /\ LeaderInit
    /\ WorkerInit
    /\ SchedInit

SpecSched == InitSched /\ [][SchedNext]_vars

\* the dispatchers alone: scheduler, backup_now and collect sending jobs
InitDispatch ==
    /\ IngestInit(MaxDispatch, {}, {})
    /\ LeaderInit
    /\ WorkerInit
    /\ SchedIdle

SpecDispatch == InitDispatch /\ [][DispatchNext]_vars

\* the ingestors with processes that are killed and started again
InitIngestCrash ==
    /\ IngestInit(MaxRaceDispatch, {1}, {1})
    /\ LeaderInit
    /\ WorkerInit
    /\ SchedIdle

SpecIngestCrash == InitIngestCrash /\ [][IngestCrashNext]_vars

\* The scheduler is started on a database that an earlier scheduler process
\* left behind: that process made one dispatch tick at the present clock
\* reading, saved last_tick (update_scheduler_state) and ended.
InitSchedRestart ==
    /\ IngestIdle
    /\ LeaderInit
    /\ WorkerInit
    /\ tzOffset \in DisplayOffsets
    /\ snow = StartLocal - tzOffset
    /\ \E c \in ScheduleChoices : schedules = <<c, DailySchedule>>
    /\ last_run_at = TickPass(1, [i \in 1..Len(ScheduleDevices) |-> Null], snow, {}).lra
    /\ last_tick = Some(snow)
    /\ sphase = "down"
    /\ tickDone = FALSE
    /\ sjobs = <<>>
    /\ missed = <<>>
    /\ outages = {}
    /\ advances = 0
    /\ starts = 0

SpecSchedRestart == InitSchedRestart /\ [][SchedNext]_vars

====
